---- MODULE Spec2Model ----
(***************************************************************************)
(* Model of the adaptive interview backend: the in-memory session store    *)
(* (services/memory_manager.py), the decision functions of the interview   *)
(* engine (services/interview_engine.py) and the request handlers          *)
(* (routes/interview_routes.py, routes/resume_routes.py).                  *)
(*                                                                         *)
(* Python dicts are functions whose DOMAIN is the set of keys present.     *)
(* The text-generation oracle is an input: every call draws one reply.     *)
(***************************************************************************)
EXTENDS Integers, Sequences, FiniteSets, TLC

VARIABLES sessions, now, last, uploads, loop, rag_store

vars == <<sessions, now, last, uploads, loop, rag_store>>

----------------------------------------------------------------------------
(* Bounds *)

\* answers and skips are taken while fewer than MaxQuestions questions exist
MaxQuestions == 3
\* the same, for the long interviews of DeepSpec
MaxDeep == 6
\* time.time() takes the values 1..MaxClock
MaxClock == 2
\* uploads in flight per session identifier
MaxUploads == 1
\* requests accepted in ConcSpec
MaxTasks == 2
\* answers and skips are taken in FallbackSpec below this many questions
MaxFallback == 10

\* answers and skips are taken in ReportSpec below this many questions
MaxReport == 5
\* answers and skips are taken in IsolationSpec below this many questions
MaxIsolated == 2
\* words of the longest document ingested at the default chunk size
MaxWords == 250
\* words of the longest document that is queried
MaxDocWords == 6

Ids == {"s1"}

----------------------------------------------------------------------------
(* Python helpers *)

\* Optional[str] = None
None == "<None>"

EmptyDict == <<>>

\* dict.get(k, default)
Get(d, k, default) == IF k \in DOMAIN d THEN d[k] ELSE default

\* dict.setdefault(k, v), as the dict after the call
SetDefault(d, k, v) ==
    IF k \in DOMAIN d THEN d
    ELSE [x \in (DOMAIN d) \cup {k} |-> IF x = k THEN v ELSE d[x]]

\* dict.update(e), as the dict after the call
Update(d, e) ==
    [x \in (DOMAIN d) \cup (DOMAIN e) |-> IF x \in DOMAIN e THEN e[x] ELSE d[x]]

Min(a, b) == IF a < b THEN a ELSE b
Max(a, b) == IF a > b THEN a ELSE b

----------------------------------------------------------------------------
(* services/memory_manager.py *)

QuestionRecord(q_num, question, category) ==
    [question_number |-> q_num, question |-> question, category |-> category,
     answer |-> None, score |-> 0, feedback |-> "", skipped |-> FALSE]

InterviewSession(session_id) ==
    [session_id |-> session_id,
     resume_text |-> "",
     resume_summary |-> EmptyDict,
     questions |-> <<>>,
     current_question_index |-> 0,
     started |-> FALSE,
     finished |-> FALSE,
     start_time |-> 0,
     end_time |-> 0,
     conversation_history |-> <<>>,
     current_topic |-> "introduction",
     topic_question_count |-> 0,
     weak_streak |-> 0]

\* _sessions[session_id] = InterviewSession(session_id=session_id)
create_session(store, session_id) ==
    [x \in (DOMAIN store) \cup {session_id} |->
        IF x = session_id THEN InterviewSession(session_id) ELSE store[x]]

\* update_session that sets the fields on every stored session
update_session_every(store, session_id, kwargs) ==
    IF session_id \notin DOMAIN store THEN store
    ELSE [x \in DOMAIN store |->
            [f \in DOMAIN store[x] |->
                IF f \in DOMAIN kwargs THEN kwargs[f] ELSE store[x][f]]]

\* update_session with the setattr not guarded by hasattr
update_session_setattr(store, session_id, kwargs) ==
    IF session_id \notin DOMAIN store THEN store
    ELSE [store EXCEPT ![session_id] = Update(@, kwargs)]

\* setattr for every key of kwargs that the session has; nothing when the
\* session is missing
update_session(store, session_id, kwargs) ==
    IF session_id \notin DOMAIN store THEN store
    ELSE [store EXCEPT ![session_id] =
            [f \in DOMAIN store[session_id] |->
                IF f \in DOMAIN kwargs THEN kwargs[f] ELSE store[session_id][f]]]

add_question(store, session_id, question, category) ==
    IF session_id \notin DOMAIN store THEN store
    ELSE LET q_num == Len(store[session_id].questions) + 1 IN
         [store EXCEPT ![session_id].questions =
            Append(@, QuestionRecord(q_num, question, category))]

\* record_answer with the index advanced to question_number + 1 (the ordinal
\* is 1-based, the index 0-based)
record_answer_ordinal(store, session_id, answer, score, feedback) ==
    IF session_id \notin DOMAIN store THEN store
    ELSE LET session == store[session_id]
             idx == session.current_question_index IN
         IF session.questions # <<>> /\ idx < Len(session.questions)
         THEN [store EXCEPT
                 ![session_id].questions[idx + 1] =
                     [@ EXCEPT !.answer = answer, !.score = score,
                               !.feedback = feedback],
                 ![session_id].current_question_index =
                     session.questions[idx + 1].question_number + 1]
         ELSE store

record_answer(store, session_id, answer, score, feedback) ==
    IF session_id \notin DOMAIN store THEN store
    ELSE LET session == store[session_id]
             idx == session.current_question_index IN
         IF session.questions # <<>> /\ idx < Len(session.questions)
         THEN [store EXCEPT
                 ![session_id].questions[idx + 1] =
                     [@ EXCEPT !.answer = answer, !.score = score,
                               !.feedback = feedback],
                 ![session_id].current_question_index = @ + 1]
         ELSE store

\* record_skip that leaves current_question_index where it is
record_skip_in_place(store, session_id) ==
    IF session_id \notin DOMAIN store THEN store
    ELSE LET session == store[session_id]
             idx == session.current_question_index IN
         IF session.questions # <<>> /\ idx < Len(session.questions)
         THEN [store EXCEPT ![session_id].questions[idx + 1].skipped = TRUE]
         ELSE store

record_skip(store, session_id) ==
    IF session_id \notin DOMAIN store THEN store
    ELSE LET session == store[session_id]
             idx == session.current_question_index IN
         IF session.questions # <<>> /\ idx < Len(session.questions)
         THEN [store EXCEPT
                 ![session_id].questions[idx + 1].skipped = TRUE,
                 ![session_id].current_question_index = @ + 1]
         ELSE store

add_to_history(store, session_id, role, content) ==
    IF session_id \notin DOMAIN store THEN store
    ELSE [store EXCEPT ![session_id].conversation_history =
            Append(@, [role |-> role, content |-> content])]

\* truth value of q.answer: None and the empty string are false
has_answer(q) == q.answer # None /\ q.answer # ""

RECURSIVE sum_scores(_)
sum_scores(records) ==
    IF records = <<>> THEN 0 ELSE Head(records).score + sum_scores(Tail(records))

\* max(records, key=lambda q: q.score): the first record of the highest score
max_by_score(records) ==
    records[CHOOSE i \in DOMAIN records :
               /\ \A j \in DOMAIN records : records[j].score <= records[i].score
               /\ \A j \in 1..(i - 1) : records[j].score < records[i].score]

\* min(records, key=lambda q: q.score): the first record of the lowest score
min_by_score(records) ==
    records[CHOOSE i \in DOMAIN records :
               /\ \A j \in DOMAIN records : records[j].score >= records[i].score
               /\ \A j \in 1..(i - 1) : records[j].score > records[i].score]

\* round(total / n, 1) in tenths: the nearest tenth, a tie (an exact .x5,
\* which needs n to be a multiple of 4 and is then exact in binary) going to
\* the even tenth
round_tenths(total, n) ==
    LET q == (10 * total) \div n
        rest == (10 * total) % n
    IN IF 2 * rest < n THEN q
       ELSE IF 2 * rest > n THEN q + 1
       ELSE IF q % 2 = 0 THEN q ELSE q + 1

\* int(session.end_time - session.start_time) if session.end_time else 0
duration_seconds(session) ==
    IF session.end_time # 0 THEN session.end_time - session.start_time ELSE 0

\* the answered list of get_session_report without the skipped test
report_answered_any(session) ==
    SelectSeq(session.questions, LAMBDA q : q.answer # None \/ q.skipped)

\* answered = [q for q in session.questions if not q.skipped and q.answer]
report_answered(session) ==
    SelectSeq(session.questions, LAMBDA q : ~q.skipped /\ has_answer(q))

\* technical_answered without the category test
technical_answered_any(answered) ==
    SelectSeq(answered, LAMBDA q : q.score >= 6)

technical_answered(answered) ==
    SelectSeq(answered,
              LAMBDA q : q.category \in {"technical", "skill", "project"}
                         /\ q.score >= 6)

\* None where the other values are dicts (q.__dict__ if q else None; the
\* report of a missing session)
NoDict == <<>>

\* average_score is held in tenths (round(avg_score, 1) * 10)
get_session_report(store, session_id) ==
    IF session_id \notin DOMAIN store THEN NoDict
    ELSE LET session == store[session_id]
             answered == report_answered(session)
             skipped == SelectSeq(session.questions, LAMBDA q : q.skipped)
             technical == technical_answered(answered)
         IN [session_id |-> session_id,
             total_questions |-> Len(session.questions),
             answered |-> Len(answered),
             skipped |-> Len(skipped),
             average_score |-> IF answered # <<>>
                               THEN round_tenths(sum_scores(answered), Len(answered))
                               ELSE 0,
             best_answer |-> IF technical # <<>> THEN max_by_score(technical) ELSE NoDict,
             worst_answer |-> IF answered # <<>> THEN min_by_score(answered) ELSE NoDict,
             results |-> session.questions,
             duration_seconds |-> duration_seconds(session)]

----------------------------------------------------------------------------
(* services/interview_engine.py *)

\* What one oracle call produces.  kind "noclient": get_client() is None.
\* kind "raises": anything that raises inside the try block (the request
\* fails or times out, the text is not JSON, the JSON is not an object, the
\* score does not convert with int()).  kind "dict": the text parsed to the
\* JSON object in field dict.
NoClient == [kind |-> "noclient", dict |-> EmptyDict]
Raises == [kind |-> "raises", dict |-> EmptyDict]
Parsed(d) == [kind |-> "dict", dict |-> d]

\* the reply slot of a request that made no oracle call
NoCall == [kind |-> "nocall", dict |-> EmptyDict]

\* the fallback opening line filed under the topic of the later rotation
FirstQuestionFallback_projects ==
    [question |-> "Tell me about a project you enjoyed working on. What did you build?",
     category |-> "project", topic |-> "projects"]

FirstQuestionFallback ==
    [question |-> "Tell me about yourself and your background.",
     category |-> "general", topic |-> "introduction"]

generate_first_question(resume_data, reply) ==
    IF reply.kind = "noclient" THEN FirstQuestionFallback
    ELSE IF reply.kind = "raises" THEN FirstQuestionFallback
    ELSE SetDefault(reply.dict, "topic", "introduction")

\* f"Can you tell me what {s1} is and why you like using it?"
SkillQuestion(s1) ==
    CASE s1 = "Python" -> "Can you tell me what Python is and why you like using it?"
      [] s1 = "Sql" -> "Can you tell me what Sql is and why you like using it?"
      [] s1 = "programming" -> "Can you tell me what programming is and why you like using it?"

\* f"What is {s2} used for in simple terms?"
UsedForQuestion(s2) ==
    CASE s2 = "Python" -> "What is Python used for in simple terms?"
      [] s2 = "Sql" -> "What is Sql used for in simple terms?"
      [] s2 = "your domain" -> "What is your domain used for in simple terms?"

FallbackPool(s1, s2) ==
    << [next_question |-> SkillQuestion(s1), category |-> "skill", topic |-> s1],
       [next_question |-> "Tell me about a project you enjoyed working on. What did you build?",
        category |-> "project", topic |-> "projects"],
       [next_question |-> "When you find a bug in your code, what is the first thing you usually do?",
        category |-> "behavioral", topic |-> "problem_solving"],
       [next_question |-> UsedForQuestion(s2), category |-> "technical", topic |-> s2],
       [next_question |-> "Tell me about something you learned recently that you found interesting.",
        category |-> "behavioral", topic |-> "learning"],
       [next_question |-> "Have you used Git before? What basic commands do you use most often?",
        category |-> "technical", topic |-> "git"],
       [next_question |-> "How do you usually learn a new technology or tool?",
        category |-> "general", topic |-> "learning"],
       [next_question |-> "What is the difference between frontend and backend development?",
        category |-> "technical", topic |-> "basics"] >>

\* fallback_next with the rotation wrapping around instead of stopping at
\* its last entry
fallback_next_wrap(resume_data, q_num, topic_count, current_topic) ==
    LET skills == Get(resume_data, "skills", <<"programming">>)
        s1 == IF skills # <<>> THEN skills[1] ELSE "programming"
        s2 == IF Len(skills) > 1 THEN skills[2] ELSE "your domain"
        pool == FallbackPool(s1, s2)
        idx == q_num % Len(pool)
    IN Update(pool[idx + 1],
              [analysis |-> "Fallback mode - LLM unavailable", score |-> 5,
               should_end |-> FALSE, end_reason |-> ""])

fallback_next(resume_data, q_num, topic_count, current_topic) ==
    LET skills == Get(resume_data, "skills", <<"programming">>)
        s1 == IF skills # <<>> THEN skills[1] ELSE "programming"
        s2 == IF Len(skills) > 1 THEN skills[2] ELSE "your domain"
        pool == FallbackPool(s1, s2)
        idx == Min(q_num, Len(pool) - 1)
    IN Update(pool[idx + 1],
              [analysis |-> "Fallback mode - LLM unavailable", score |-> 5,
               should_end |-> FALSE, end_reason |-> ""])

\* analyze_and_next_question that rejects an object without next_question
\* instead of defaulting it
analyze_and_next_question_strict(resume_data, current_topic, topic_question_count, total_questions_asked, total_weak_streak, reply) ==
    IF reply.kind # "dict" \/ "next_question" \notin DOMAIN reply.dict
    THEN fallback_next(resume_data, total_questions_asked, topic_question_count, current_topic)
    ELSE LET r1 == SetDefault(reply.dict, "analysis", "Answer analyzed.")
             r2 == SetDefault(r1, "score", 5)
             r4 == SetDefault(r2, "category", "general")
             r5 == SetDefault(r4, "topic", current_topic)
             r6 == SetDefault(r5, "should_end", FALSE)
             r7 == SetDefault(r6, "end_reason", "")
         IN [r7 EXCEPT !["score"] = Min(Max(r7["score"], 1), 10)]

\* analyze_and_next_question storing the oracle's score as received
analyze_and_next_question_unclamped(resume_data, current_topic, topic_question_count, total_questions_asked, total_weak_streak, reply) ==
    IF reply.kind = "noclient"
    THEN fallback_next(resume_data, total_questions_asked, topic_question_count, current_topic)
    ELSE IF reply.kind = "raises"
    THEN fallback_next(resume_data, total_questions_asked, topic_question_count, current_topic)
    ELSE LET r1 == SetDefault(reply.dict, "analysis", "Answer analyzed.")
             r2 == SetDefault(r1, "score", 5)
             r3 == SetDefault(r2, "next_question", "Can you tell me more about that?")
             r4 == SetDefault(r3, "category", "general")
             r5 == SetDefault(r4, "topic", current_topic)
             r6 == SetDefault(r5, "should_end", FALSE)
         IN SetDefault(r6, "end_reason", "")

analyze_and_next_question(resume_data, current_topic, topic_question_count, total_questions_asked, total_weak_streak, reply) ==
    IF reply.kind = "noclient"
    THEN fallback_next(resume_data, total_questions_asked, topic_question_count, current_topic)
    ELSE IF reply.kind = "raises"
    THEN fallback_next(resume_data, total_questions_asked, topic_question_count, current_topic)
    ELSE LET r1 == SetDefault(reply.dict, "analysis", "Answer analyzed.")
             r2 == SetDefault(r1, "score", 5)
             r3 == SetDefault(r2, "next_question", "Can you tell me more about that?")
             r4 == SetDefault(r3, "category", "general")
             r5 == SetDefault(r4, "topic", current_topic)
             r6 == SetDefault(r5, "should_end", FALSE)
             r7 == SetDefault(r6, "end_reason", "")
         IN [r7 EXCEPT !["score"] = Min(Max(r7["score"], 1), 10)]

\* generate_after_skip ending the interview only above three weak events
generate_after_skip_gt(resume_data, total_questions_asked, total_weak_streak, reply) ==
    IF total_weak_streak > 3 /\ total_questions_asked >= 5
    THEN [analysis |-> "Candidate skipped again with too many weak responses.",
          score |-> 0,
          next_question |-> "Thank you for your time. That concludes our interview.",
          category |-> "general", topic |-> "closing",
          should_end |-> TRUE,
          end_reason |-> "Too many consecutive skips and weak answers"]
    ELSE IF reply.kind \in {"noclient", "raises"}
    THEN fallback_next(resume_data, total_questions_asked, 0, "new")
    ELSE [analysis |-> "Candidate skipped - moving to different topic.",
          score |-> 0,
          next_question |-> Get(reply.dict, "next_question",
                                "Tell me about another project you worked on."),
          category |-> Get(reply.dict, "category", "general"),
          topic |-> Get(reply.dict, "topic", "new_topic"),
          should_end |-> FALSE,
          end_reason |-> ""]

generate_after_skip(resume_data, total_questions_asked, total_weak_streak, reply) ==
    IF total_weak_streak >= 3 /\ total_questions_asked >= 5
    THEN [analysis |-> "Candidate skipped again with too many weak responses.",
          score |-> 0,
          next_question |-> "Thank you for your time. That concludes our interview.",
          category |-> "general", topic |-> "closing",
          should_end |-> TRUE,
          end_reason |-> "Too many consecutive skips and weak answers"]
    ELSE IF reply.kind = "noclient"
    THEN fallback_next(resume_data, total_questions_asked, 0, "new")
    ELSE IF reply.kind = "raises"
    THEN fallback_next(resume_data, total_questions_asked, 0, "new")
    ELSE [analysis |-> "Candidate skipped - moving to different topic.",
          score |-> 0,
          next_question |-> Get(reply.dict, "next_question",
                                "Tell me about another project you worked on."),
          category |-> Get(reply.dict, "category", "general"),
          topic |-> Get(reply.dict, "topic", "new_topic"),
          should_end |-> FALSE,
          end_reason |-> ""]

\* whether generate_after_skip reaches the oracle
skip_calls_oracle(total_questions_asked, total_weak_streak) ==
    ~(total_weak_streak >= 3 /\ total_questions_asked >= 5)

----------------------------------------------------------------------------
(* routes/interview_routes.py: the handlers, as functions of the store.     *)
(* Each yields the store after the request, the HTTP status, the response   *)
(* body and whether the oracle was called.  `session` in the code is a      *)
(* reference to the stored object, so every read sees the latest write.     *)

Rejected(store, status) ==
    [store |-> store, status |-> status, body |-> EmptyDict, called |-> FALSE]

\* start_fields without the topic_question_count argument
start_fields_no_count(first_q, t) ==
    [started |-> TRUE,
     start_time |-> t,
     current_topic |-> Get(first_q, "topic", "introduction"),
     weak_streak |-> 0]

\* the keyword arguments of the update_session call of start_interview
start_fields(first_q, t) ==
    [started |-> TRUE,
     start_time |-> t,
     current_topic |-> Get(first_q, "topic", "introduction"),
     topic_question_count |-> 1,
     weak_streak |-> 0]

start_interview(store, sid, reply, t) ==
    IF sid \notin DOMAIN store THEN Rejected(store, 404)
    ELSE IF store[sid].started THEN Rejected(store, 400)
    ELSE LET first_q == generate_first_question(store[sid].resume_summary, reply) IN
         \* first_q["question"], first_q["category"]: KeyError, unhandled
         IF ~({"question", "category"} \subseteq DOMAIN first_q)
         THEN [store |-> store, status |-> 500, body |-> EmptyDict, called |-> TRUE]
         ELSE LET st1 == add_question(store, sid, first_q["question"], first_q["category"])
                  st2 == update_session(st1, sid, start_fields(first_q, t))
                  st3 == add_to_history(st2, sid, "interviewer", first_q["question"])
              IN [store |-> st3, status |-> 200, called |-> TRUE,
                  body |-> [question |-> first_q["question"],
                            question_number |-> 1,
                            category |-> first_q["category"],
                            is_finished |-> FALSE,
                            analysis |-> "",
                            score |-> 0]]

\* next_weak_streak with the threshold off by one
next_weak_streak_lt(score, weak_streak) ==
    IF score < 5 THEN weak_streak + 1 ELSE 0

\* "Update weak streak"
next_weak_streak(score, weak_streak) ==
    IF score <= 5 THEN weak_streak + 1 ELSE 0

\* "Update topic tracking"
next_topic_count(new_topic, current_topic, topic_question_count) ==
    IF new_topic # current_topic THEN 1 ELSE topic_question_count + 1

\* submit_answer up to the call of analyze_and_next_question: the guards,
\* the candidate's message, and the arguments the call is given
submit_answer_enter(store, sid, answer, t) ==
    IF sid \notin DOMAIN store THEN Rejected(store, 404)
    ELSE IF ~store[sid].started THEN Rejected(store, 400)
    ELSE IF store[sid].finished THEN Rejected(store, 400)
    ELSE LET current_idx == store[sid].current_question_index IN
         IF current_idx >= Len(store[sid].questions)
         THEN [store |-> update_session(store, sid, [finished |-> TRUE, end_time |-> t]),
               status |-> 200, called |-> FALSE,
               body |-> [analysis |-> "Interview complete!",
                         next_question |-> None,
                         question_number |-> current_idx,
                         category |-> "",
                         is_finished |-> TRUE,
                         score |-> 0]]
         ELSE LET st1 == add_to_history(store, sid, "candidate", answer) IN
              [store |-> st1, status |-> 0, called |-> TRUE, body |-> EmptyDict,
               args |-> [resume_data |-> st1[sid].resume_summary,
                         current_topic |-> st1[sid].current_topic,
                         topic_question_count |-> st1[sid].topic_question_count,
                         total_questions_asked |-> Len(st1[sid].questions),
                         total_weak_streak |-> st1[sid].weak_streak]]

\* submit_answer from the oracle's reply on
submit_answer_resume(st1, sid, answer, args, reply, t) ==
    LET result == analyze_and_next_question(
                      args.resume_data,
                      args.current_topic,
                      args.topic_question_count,
                      args.total_questions_asked,
                      args.total_weak_streak,
                      reply)
        score == result["score"]
        analysis == result["analysis"]
        st2 == record_answer(st1, sid, answer, score, analysis)
        new_weak_streak == next_weak_streak(score, st2[sid].weak_streak)
        new_topic == Get(result, "topic", st2[sid].current_topic)
        new_topic_count == next_topic_count(new_topic, st2[sid].current_topic,
                                            st2[sid].topic_question_count)
        st3 == update_session(st2, sid,
                   [current_topic |-> new_topic,
                    topic_question_count |-> new_topic_count,
                    weak_streak |-> new_weak_streak])
    IN IF Get(result, "should_end", FALSE)
       THEN [store |-> update_session(st3, sid, [finished |-> TRUE, end_time |-> t]),
             status |-> 200, called |-> TRUE,
             body |-> [analysis |-> analysis,
                       next_question |-> result["next_question"],
                       question_number |-> Len(st3[sid].questions),
                       category |-> result["category"],
                       is_finished |-> TRUE,
                       score |-> score,
                       end_reason |-> Get(result, "end_reason", "")]]
       ELSE LET next_question == result["next_question"]
                st4 == add_question(st3, sid, next_question, result["category"])
                st5 == add_to_history(st4, sid, "interviewer", next_question)
            IN [store |-> st5, status |-> 200, called |-> TRUE,
                body |-> [analysis |-> analysis,
                          next_question |-> next_question,
                          question_number |-> Len(st5[sid].questions),
                          category |-> result["category"],
                          topic |-> new_topic,
                          is_finished |-> FALSE,
                          score |-> score]]

submit_answer(store, sid, answer, reply, t) ==
    LET e == submit_answer_enter(store, sid, answer, t) IN
    IF e.called
    THEN submit_answer_resume(e.store, sid, answer, e.args, reply, t)
    ELSE e

\* skip_question_finish with the closing line appended to the ledger
skip_question_finish_logs_closing(st2, sid, result, called, t) ==
    IF Get(result, "should_end", FALSE)
    THEN [store |-> add_to_history(
                      update_session(st2, sid, [finished |-> TRUE, end_time |-> t]),
                      sid, "interviewer", result["next_question"]),
          status |-> 200, called |-> called,
          body |-> [next_question |-> result["next_question"],
                    question_number |-> Len(st2[sid].questions),
                    category |-> "general",
                    is_finished |-> TRUE,
                    end_reason |-> Get(result, "end_reason", "")]]
    ELSE LET next_question == result["next_question"]
             new_topic == Get(result, "topic", "new_topic")
             st3 == add_question(st2, sid, next_question, result["category"])
             st4 == add_to_history(st3, sid, "interviewer", next_question)
             st5 == update_session(st4, sid,
                        [current_topic |-> new_topic,
                         topic_question_count |-> 1])
         IN [store |-> st5, status |-> 200, called |-> called,
             body |-> [next_question |-> next_question,
                       question_number |-> Len(st5[sid].questions),
                       category |-> result["category"],
                       topic |-> new_topic,
                       is_finished |-> FALSE]]

\* the rest of skip_question once generate_after_skip has its result
skip_question_finish(st2, sid, result, called, t) ==
    IF Get(result, "should_end", FALSE)
    THEN [store |-> update_session(st2, sid, [finished |-> TRUE, end_time |-> t]),
          status |-> 200, called |-> called,
          body |-> [next_question |-> result["next_question"],
                    question_number |-> Len(st2[sid].questions),
                    category |-> "general",
                    is_finished |-> TRUE,
                    end_reason |-> Get(result, "end_reason", "")]]
    ELSE LET next_question == result["next_question"]
             new_topic == Get(result, "topic", "new_topic")
             st3 == add_question(st2, sid, next_question, result["category"])
             st4 == add_to_history(st3, sid, "interviewer", next_question)
             st5 == update_session(st4, sid,
                        [current_topic |-> new_topic,
                         topic_question_count |-> 1])
         IN [store |-> st5, status |-> 200, called |-> called,
             body |-> [next_question |-> next_question,
                       question_number |-> Len(st5[sid].questions),
                       category |-> result["category"],
                       topic |-> new_topic,
                       is_finished |-> FALSE]]

\* skip_question_enter without the guard on a finished session
skip_question_enter_unguarded(store, sid, t) ==
    IF sid \notin DOMAIN store THEN Rejected(store, 404)
    ELSE IF ~store[sid].started THEN Rejected(store, 400)
    ELSE LET st1 == record_skip(store, sid)
             new_weak_streak == st1[sid].weak_streak + 1
             st2 == update_session(st1, sid, [weak_streak |-> new_weak_streak])
             total == Len(st2[sid].questions)
         IN IF skip_calls_oracle(total, new_weak_streak)
            THEN [store |-> st2, status |-> 0, called |-> TRUE, body |-> EmptyDict,
                  args |-> [resume_data |-> st2[sid].resume_summary,
                            total_questions_asked |-> total,
                            total_weak_streak |-> new_weak_streak]]
            ELSE skip_question_finish(st2, sid,
                     generate_after_skip(st2[sid].resume_summary, total,
                                         new_weak_streak, NoCall),
                     FALSE, t)

\* skip_question up to the oracle call inside generate_after_skip: the
\* guards, the skip mark, the weak streak; the whole handler when
\* generate_after_skip ends the interview without a call
skip_question_enter(store, sid, t) ==
    IF sid \notin DOMAIN store THEN Rejected(store, 404)
    ELSE IF ~store[sid].started THEN Rejected(store, 400)
    ELSE IF store[sid].finished THEN Rejected(store, 400)
    ELSE LET st1 == record_skip(store, sid)
             new_weak_streak == st1[sid].weak_streak + 1
             st2 == update_session(st1, sid, [weak_streak |-> new_weak_streak])
             total == Len(st2[sid].questions)
         IN IF skip_calls_oracle(total, new_weak_streak)
            THEN [store |-> st2, status |-> 0, called |-> TRUE, body |-> EmptyDict,
                  args |-> [resume_data |-> st2[sid].resume_summary,
                            total_questions_asked |-> total,
                            total_weak_streak |-> new_weak_streak]]
            ELSE skip_question_finish(st2, sid,
                     generate_after_skip(st2[sid].resume_summary, total,
                                         new_weak_streak, NoCall),
                     FALSE, t)

\* skip_question from the oracle's reply on
skip_question_resume(st2, sid, args, reply, t) ==
    skip_question_finish(st2, sid,
        generate_after_skip(args.resume_data, args.total_questions_asked,
                            args.total_weak_streak, reply),
        TRUE, t)

skip_question(store, sid, reply, t) ==
    LET e == skip_question_enter(store, sid, t) IN
    IF e.called
    THEN skip_question_resume(e.store, sid, e.args, reply, t)
    ELSE e

end_interview(store, sid, t) ==
    IF sid \notin DOMAIN store THEN Rejected(store, 404)
    ELSE [store |-> update_session(store, sid, [finished |-> TRUE, end_time |-> t]),
          status |-> 200, called |-> FALSE,
          body |-> [message |-> "Interview ended", session_id |-> sid]]

----------------------------------------------------------------------------
(* services/evaluation_engine.py, routes/report_routes.py *)

\* the text the oracle returns for a feedback prompt ("" when the response
\* has no choices)
Text(t) == [kind |-> "text", dict |-> [text |-> t]]

\* a feedback text; tenths fills {avg_score:.1f} where the text has it
Feedback(text, tenths) == [text |-> text, tenths |-> tenths]

NoAnswersFeedback == Feedback("No questions were answered in this interview.", 0)

CompletedFeedback(tenths) ==
    Feedback("Interview completed with an average score of {avg_score:.1f}/10.", tenths)

\* the four fixed bands; avg_score = total / n
band_feedback(total, n) ==
    IF total >= 8 * n
    THEN Feedback("Excellent performance! You demonstrated strong knowledge and communication skills.", 0)
    ELSE IF total >= 6 * n
    THEN Feedback("Good performance. You showed solid understanding with room for improvement in some areas.", 0)
    ELSE IF total >= 4 * n
    THEN Feedback("Average performance. Consider practicing more detailed and structured responses.", 0)
    ELSE Feedback("Needs improvement. Focus on building deeper knowledge and practicing your responses.", 0)

\* answered = [r for r in results if not r.get("skipped")]
feedback_answered(results) == SelectSeq(results, LAMBDA r : ~r.skipped)

\* the text, and whether the reply was looked at
generate_overall_feedback(results, reply) ==
    LET answered == feedback_answered(results)
        total == sum_scores(answered)
    IN IF answered = <<>>
       THEN [text |-> NoAnswersFeedback, called |-> FALSE]
       ELSE IF reply.kind = "noclient"
       THEN [text |-> band_feedback(total, Len(answered)), called |-> TRUE]
       ELSE IF reply.kind = "raises" \/ reply.dict.text = ""
       THEN [text |-> CompletedFeedback(round_tenths(total, Len(answered))),
             called |-> TRUE]
       ELSE [text |-> Feedback(reply.dict.text, 0), called |-> TRUE]

get_report(store, sid, reply) ==
    LET report == get_session_report(store, sid) IN
    IF report = NoDict THEN Rejected(store, 404)
    ELSE LET overall == generate_overall_feedback(report.results, reply) IN
         [store |-> store, status |-> 200, called |-> overall.called,
          body |-> Update(report, [overall_feedback |-> overall.text])]

----------------------------------------------------------------------------
(* services/rag_engine.py *)

(* A text is the sequence of its maximal runs: words (runs without           *)
(* whitespace) and whitespace runs, alternating.                             *)
Whitespace == {" ", "\n", "  "}

\* text.split()
split(text) == SelectSeq(text, LAMBDA t : t \notin Whitespace)

\* sep.join(words) for a list of words
join(sep, words) ==
    [j \in 1..(IF words = <<>> THEN 0 ELSE 2 * Len(words) - 1) |->
        IF j % 2 = 1 THEN words[(j + 1) \div 2] ELSE sep]

\* sep.join(texts) for a list of texts
RECURSIVE join_texts(_, _)
join_texts(sep, texts) ==
    IF texts = <<>> THEN <<>>
    ELSE IF Len(texts) = 1 THEN texts[1]
    ELSE texts[1] \o <<sep>> \o join_texts(sep, Tail(texts))

\* words[i:i + step], i counted from 0
slice(words, i, step) == SubSeq(words, i + 1, Min(i + step, Len(words)))

\* for i in range(0, len(words), step): the chunks from offset i on
RECURSIVE chunks_from(_, _, _)
chunks_from(words, i, step) ==
    IF i >= Len(words) THEN <<>>
    ELSE LET chunk == join(" ", slice(words, i, step)) IN
         (IF split(chunk) # <<>> THEN <<chunk>> ELSE <<>>)
            \o chunks_from(words, i + step, step)

\* store_resume_chunks keeping an empty chunk list for a text without words
store_resume_chunks_no_raw(store, session_id, text, chunk_size) ==
    LET chunks == chunks_from(split(text), 0, Max(chunk_size, 1)) IN
    [x \in (DOMAIN store) \cup {session_id} |->
        IF x = session_id THEN chunks ELSE store[x]]

store_resume_chunks(store, session_id, text, chunk_size) ==
    LET words == split(text)
        step == Max(chunk_size, 1)
        chunks0 == chunks_from(words, 0, step)
        chunks == IF chunks0 = <<>> THEN <<text>> ELSE chunks0
    IN [x \in (DOMAIN store) \cup {session_id} |->
           IF x = session_id THEN chunks ELSE store[x]]

\* re.findall(r'[a-zA-Z]+', run.lower()) for the runs the texts are made of
alpha_runs(run) ==
    CASE run \in {"node.js", "Node.js"} -> <<"node", "js">>
      [] run \in {"js", "JS"} -> <<"js">>
      [] run \in {"Python", "python"} -> <<"python">>
      [] run \in {"Sql", "sql"} -> <<"sql">>
      [] run \in {"2024", "2019-2021"} -> <<>>
      [] run \in Whitespace -> <<>>

RECURSIVE tokenize(_)
tokenize(text) ==
    IF text = <<>> THEN <<>> ELSE alpha_runs(Head(text)) \o tokenize(Tail(text))

\* Counter(tokens)[t]
count(tokens, t) == Cardinality({i \in DOMAIN tokens : tokens[i] = t})

Keys(tokens) == {tokens[i] : i \in DOMAIN tokens}

RECURSIVE Sum(_, _)
Sum(f, S) ==
    IF S = {} THEN 0
    ELSE LET x == CHOOSE y \in S : TRUE IN f[x] + Sum(f, S \ {x})

(* A similarity is kept as the three integers the code computes it from:     *)
(* its value is dot / (sqrt(qn2) * sqrt(dn2)) in IEEE-754 double arithmetic. *)
ZeroSimilarity == [dot |-> 0, qn2 |-> 1, dn2 |-> 1]

\* _compute_similarity with all_tokens taken as set(...) ^ set(...)
compute_similarity_symdiff(query_tokens, doc_tokens) ==
    IF query_tokens = <<>> \/ doc_tokens = <<>> THEN ZeroSimilarity
    ELSE LET all_tokens == (Keys(query_tokens) \cup Keys(doc_tokens))
                             \ (Keys(query_tokens) \cap Keys(doc_tokens))
             dot_product == Sum([t \in all_tokens |->
                                   count(query_tokens, t) * count(doc_tokens, t)],
                                all_tokens)
             q2 == Sum([t \in Keys(query_tokens) |-> count(query_tokens, t) ^ 2],
                       Keys(query_tokens))
             d2 == Sum([t \in Keys(doc_tokens) |-> count(doc_tokens, t) ^ 2],
                       Keys(doc_tokens))
         IN [dot |-> dot_product, qn2 |-> q2, dn2 |-> d2]

compute_similarity(query_tokens, doc_tokens) ==
    IF query_tokens = <<>> \/ doc_tokens = <<>> THEN ZeroSimilarity
    ELSE LET all_tokens == Keys(query_tokens) \cup Keys(doc_tokens)
             dot_product == Sum([t \in all_tokens |->
                                   count(query_tokens, t) * count(doc_tokens, t)],
                                all_tokens)
             q2 == Sum([t \in Keys(query_tokens) |-> count(query_tokens, t) ^ 2],
                       Keys(query_tokens))
             d2 == Sum([t \in Keys(doc_tokens) |-> count(doc_tokens, t) ^ 2],
                       Keys(doc_tokens))
         IN [dot |-> dot_product, qn2 |-> q2, dn2 |-> d2]

(* The double dot / (sqrt(qn2) * sqrt(dn2)) is not always the double nearest *)
(* to the real quotient: three roundings (two square roots and their        *)
(* product) come before the division.  For chunks and queries of up to      *)
(* three of the words node.js, Python and 2024, and the query js, the sets   *)
(* list the <<dot, qn2, dn2>> whose double lies two places or one place      *)
(* below, or one place above, the nearest double; every other is nearest.    *)
TwoBelow ==
    {<<2, 2, 2>>, <<4, 2, 8>>, <<4, 8, 2>>, <<8, 8, 8>>}

OneBelow ==
    {<<1, 1, 2>>, <<2, 1, 8>>, <<2, 2, 3>>, <<2, 3, 2>>, <<4, 2, 9>>,
     <<4, 3, 8>>, <<4, 8, 3>>, <<4, 9, 2>>, <<8, 8, 9>>, <<8, 9, 8>>}

OneAbove ==
    {<<1, 1, 3>>, <<1, 1, 6>>, <<1, 3, 1>>, <<2, 1, 6>>, <<2, 2, 6>>,
     <<2, 3, 4>>, <<2, 4, 3>>, <<2, 6, 1>>, <<2, 6, 2>>, <<3, 3, 3>>,
     <<4, 3, 6>>, <<4, 4, 6>>, <<4, 6, 3>>, <<4, 6, 4>>, <<4, 6, 8>>,
     <<4, 8, 6>>, <<6, 3, 18>>, <<6, 6, 6>>, <<6, 6, 9>>, <<6, 6, 18>>,
     <<6, 9, 6>>, <<6, 18, 3>>, <<6, 18, 6>>, <<18, 18, 18>>}

float_offset(sim) ==
    LET k == <<sim.dot, sim.qn2, sim.dn2>> IN
    IF k \in TwoBelow THEN -2
    ELSE IF k \in OneBelow THEN -1
    ELSE IF k \in OneAbove THEN 1
    ELSE 0

\* a = b and a < b on real quotients: squares cross-multiplied (all terms >= 0)
real_equal(a, b) ==
    a.dot * a.dot * b.qn2 * b.dn2 = b.dot * b.dot * a.qn2 * a.dn2

real_less(a, b) ==
    a.dot * a.dot * b.qn2 * b.dn2 < b.dot * b.dot * a.qn2 * a.dn2

\* a < b on the doubles
float_less(a, b) ==
    real_less(a, b) \/ (real_equal(a, b) /\ float_offset(a) < float_offset(b))

float_equal(a, b) == ~float_less(a, b) /\ ~float_less(b, a)

\* the place of x in a list sorted by descending score: behind every
\* element that is not lower, so that equal scores keep their order
insert_desc(sorted, x) ==
    LET k == Cardinality({i \in DOMAIN sorted :
                             ~float_less(sorted[i].score, x.score)})
    IN SubSeq(sorted, 1, k) \o <<x>> \o SubSeq(sorted, k + 1, Len(sorted))

\* x placed in front of the elements of equal score
insert_desc_front(sorted, x) ==
    LET k == Cardinality({i \in DOMAIN sorted :
                             float_less(x.score, sorted[i].score)})
    IN SubSeq(sorted, 1, k) \o <<x>> \o SubSeq(sorted, k + 1, Len(sorted))

\* a descending sort that reverses the order of equal scores
RECURSIVE sort_desc_ties_reversed(_)
sort_desc_ties_reversed(scored) ==
    IF scored = <<>> THEN <<>>
    ELSE insert_desc_front(
             sort_desc_ties_reversed(SubSeq(scored, 1, Len(scored) - 1)),
             scored[Len(scored)])

\* scored.sort(key=lambda x: x[0], reverse=True): stable
RECURSIVE sort_desc(_)
sort_desc(scored) ==
    IF scored = <<>> THEN <<>>
    ELSE insert_desc(sort_desc(SubSeq(scored, 1, Len(scored) - 1)),
                     scored[Len(scored)])

\* the (score, chunk) list of retrieve_context
score_chunks(chunks, query) ==
    [i \in DOMAIN chunks |->
        [score |-> compute_similarity(tokenize(query), tokenize(chunks[i])),
         chunk |-> chunks[i]]]

\* retrieve_context without the sort: the first chunks as ingested
retrieve_context_unsorted(store, session_id, query, n_results) ==
    LET chunks == Get(store, session_id, <<>>) IN
    IF chunks = <<>> THEN <<>>
    ELSE LET scored == score_chunks(chunks, query)
             top == SubSeq(scored, 1, Min(n_results, Len(scored)))
         IN join_texts("\n", [i \in DOMAIN top |-> top[i].chunk])

retrieve_context(store, session_id, query, n_results) ==
    LET chunks == Get(store, session_id, <<>>) IN
    IF chunks = <<>> THEN <<>>
    ELSE LET scored == sort_desc(score_chunks(chunks, query))
             top == SubSeq(scored, 1, Min(n_results, Len(scored)))
         IN join_texts("\n", [i \in DOMAIN top |-> top[i].chunk])

cleanup_session(store, session_id) ==
    [x \in (DOMAIN store) \ {session_id} |-> store[x]]

get_full_resume_text(store, session_id) ==
    join_texts(" ", Get(store, session_id, <<>>))

----------------------------------------------------------------------------
(* Inputs *)

Answers == {"a"}

\* chunk_size: int = 100
chunk_size_default == 100

\* n_results: int = 3
n_results_default == 3

\* extract_text_from_pdf(file_path), never blank where it is stored
ResumeTexts == {<<"Python", " ", "Sql">>}

\* analyze_resume(resume_text): the structured profile (only the skills are
\* read by the decision functions)
Profiles == {[skills |-> <<"Python", "Sql">>]}

FirstReplies ==
    {NoClient, Raises,
     Parsed([question |-> "q0", category |-> "general", topic |-> "t1"]),
     Parsed([category |-> "general", topic |-> "introduction"]),
     Parsed([question |-> "q0", topic |-> "introduction"])}

AnswerReplies ==
    {NoClient, Raises,
     Parsed([analysis |-> "good", score |-> 8, next_question |-> "q",
             category |-> "technical", topic |-> "t1",
             should_end |-> FALSE, end_reason |-> ""]),
     Parsed([analysis |-> "weak", score |-> 0, next_question |-> "bye",
             category |-> "general", topic |-> "t1",
             should_end |-> TRUE, end_reason |-> "weak"]),
     Parsed([analysis |-> "good", score |-> 15,
             category |-> "technical", topic |-> "t1",
             should_end |-> FALSE, end_reason |-> ""]),
     Parsed(EmptyDict)}

SkipReplies ==
    {NoClient, Raises,
     Parsed([next_question |-> "q", category |-> "technical", topic |-> "t1"]),
     Parsed([next_question |-> "q", category |-> "coding", topic |-> "t2"]),
     Parsed(EmptyDict)}

\* the replies of the long interviews: no client, a strong answer, a weak
\* answer with should_end, an object with every field missing
DeepAnswerReplies ==
    {r \in AnswerReplies :
        /\ r.kind # "raises"
        /\ "next_question" \in DOMAIN r.dict \/ r.dict = EmptyDict}

DeepSkipReplies ==
    {r \in SkipReplies :
        /\ r.kind # "raises"
        /\ r # Parsed(EmptyDict)
        /\ Get(r.dict, "category", "technical") = "technical"}

----------------------------------------------------------------------------
(* The state machine.  The handlers are coroutines without an await, so the *)
(* event loop runs each request to completion: one action per request.      *)
(* upload_resume awaits file.read() after create_session: two actions.      *)

\* requests the event loop has accepted
TaskIds == 1..MaxTasks

IdleTask ==
    [op |-> "none", sid |-> "", pc |-> "idle", args |-> EmptyDict,
     idx0 |-> -1, acted |-> -1, status |-> 0, overlap |-> FALSE]

\* running = 0: no coroutine holds the loop
IdleLoop == [tasks |-> [t \in TaskIds |-> IdleTask], running |-> 0]

Response(op, sid, r, reply) ==
    [op |-> op, sid |-> sid, status |-> r.status, body |-> r.body,
     reply |-> IF r.called THEN reply ELSE NoCall]

Init ==
    /\ sessions = EmptyDict
    /\ now = 1
    /\ last = [op |-> "none", sid |-> "", status |-> 0, body |-> EmptyDict,
               reply |-> NoCall]
    /\ uploads = [s \in Ids |-> 0]
    /\ loop = IdleLoop
    /\ rag_store = EmptyDict

Tick ==
    /\ now < MaxClock
    /\ now' = now + 1
    /\ UNCHANGED <<sessions, last, uploads, loop, rag_store>>

\* upload_resume up to `await file.read()`; uuid4()[:8] is not checked
\* against the identifiers in use
UploadBegin(s) ==
    /\ uploads[s] < MaxUploads
    /\ sessions' = create_session(sessions, s)
    /\ uploads' = [uploads EXCEPT ![s] = @ + 1]
    /\ last' = [op |-> "upload_begin", sid |-> s, status |-> 0,
                body |-> EmptyDict, reply |-> NoCall]
    /\ UNCHANGED <<now, loop, rag_store>>

\* upload_resume after the await: no text extracted (400) ...
UploadFail(s) ==
    /\ uploads[s] > 0
    /\ uploads' = [uploads EXCEPT ![s] = @ - 1]
    /\ last' = [op |-> "upload_resume", sid |-> s, status |-> 400,
                body |-> EmptyDict, reply |-> NoCall]
    /\ UNCHANGED <<sessions, now, loop, rag_store>>

\* ... or the profile is stored
UploadFinish(s) ==
    /\ uploads[s] > 0
    /\ \E text \in ResumeTexts, resume_data \in Profiles :
          /\ rag_store' = store_resume_chunks(rag_store, s, text, chunk_size_default)
          /\ sessions' = update_session(sessions, s,
                            [resume_text |-> text, resume_summary |-> resume_data])
          /\ last' = [op |-> "upload_resume", sid |-> s, status |-> 200,
                      body |-> [session_id |-> s, resume_data |-> resume_data],
                      reply |-> NoCall]
    /\ uploads' = [uploads EXCEPT ![s] = @ - 1]
    /\ UNCHANGED <<now, loop>>

Start(s) ==
    \E reply \in FirstReplies :
        LET r == start_interview(sessions, s, reply, now) IN
        /\ sessions' = r.store
        /\ last' = Response("start", s, r, reply)
        /\ UNCHANGED <<now, uploads, loop, rag_store>>

\* inputs: pairs of an answer text and the oracle's reply to it
AnswerWith(s, cap, inputs) ==
    /\ s \in DOMAIN sessions => Len(sessions[s].questions) < cap
    /\ \E input \in inputs :
        LET r == submit_answer(sessions, s, input[1], input[2], now) IN
        /\ sessions' = r.store
        /\ last' = Response("answer", s, r, input[2])
        /\ UNCHANGED <<now, uploads, loop, rag_store>>

Answer(s, cap, replies) == AnswerWith(s, cap, Answers \X replies)

Skip(s, cap, replies) ==
    /\ s \in DOMAIN sessions => Len(sessions[s].questions) < cap
    /\ \E reply \in replies :
        LET r == skip_question(sessions, s, reply, now) IN
        /\ sessions' = r.store
        /\ last' = Response("skip", s, r, reply)
        /\ UNCHANGED <<now, uploads, loop, rag_store>>

End(s) ==
    LET r == end_interview(sessions, s, now) IN
    /\ sessions' = r.store
    /\ last' = Response("end", s, r, NoCall)
    /\ UNCHANGED <<now, uploads, loop, rag_store>>

Report(s, replies) ==
    \E reply \in replies :
        LET r == get_report(sessions, s, reply) IN
        /\ sessions' = r.store
        /\ last' = Response("report", s, r, reply)
        /\ UNCHANGED <<now, uploads, loop, rag_store>>

Next ==
    \/ Tick
    \/ \E s \in Ids :
        \/ UploadBegin(s)
        \/ UploadFail(s)
        \/ UploadFinish(s)
        \/ Start(s)
        \/ Answer(s, MaxQuestions, AnswerReplies)
        \/ Skip(s, MaxQuestions, SkipReplies)
        \/ End(s)

Spec == Init /\ [][Next]_vars

(* Long interviews: one session whose resume upload has completed, then only *)
(* interview requests, all within one clock reading.                         *)

DeepInit ==
    /\ \E text \in ResumeTexts, resume_data \in Profiles :
          /\ rag_store = store_resume_chunks(EmptyDict, "s1", text, chunk_size_default)
          /\ sessions = update_session(create_session(EmptyDict, "s1"), "s1",
                          [resume_text |-> text, resume_summary |-> resume_data])
    /\ now = 1
    /\ last = [op |-> "upload_resume", sid |-> "s1", status |-> 200,
               body |-> [session_id |-> "s1",
                         resume_data |-> sessions["s1"].resume_summary],
               reply |-> NoCall]
    /\ uploads = [s \in Ids |-> 0]
    /\ loop = IdleLoop

DeepNext ==
    \/ Start("s1")
    \/ Answer("s1", MaxDeep, DeepAnswerReplies)
    \/ Skip("s1", MaxDeep, DeepSkipReplies)
    \/ End("s1")

DeepSpec == DeepInit /\ [][DeepNext]_vars

(* The retrieval engine on its own: documents are ingested under a session  *)
(* key, read back and removed.                                               *)

Vocabulary == <<"node.js", "Python", "2024", "js">>

\* the first k words of an endless document
doc_words(k) == [i \in 1..k |-> Vocabulary[((i - 1) % Len(Vocabulary)) + 1]]

\* a document of k words: single blanks between the words, or line breaks
\* between them and whitespace around them
Document(k, style) ==
    IF style = "plain" THEN join(" ", doc_words(k))
    ELSE IF k = 0 THEN <<"\n">>
    ELSE <<"  ">> \o join("\n", doc_words(k)) \o <<"\n">>

LongDocuments == {Document(k, style) : k \in 0..MaxWords, style \in {"plain", "padded"}}

RagResponse(op, key, body) ==
    [op |-> op, sid |-> key, status |-> 200, body |-> body, reply |-> NoCall]

StoreChunks(key, texts, sizes) ==
    /\ \E text \in texts, chunk_size \in sizes :
          /\ rag_store' = store_resume_chunks(rag_store, key, text, chunk_size)
          /\ last' = RagResponse("ingest", key,
                                 [text |-> text, chunk_size |-> chunk_size])
    /\ UNCHANGED <<sessions, now, uploads, loop>>

FullText(key) ==
    /\ last' = RagResponse("full_text", key,
                           [text |-> get_full_resume_text(rag_store, key)])
    /\ UNCHANGED <<sessions, now, uploads, loop, rag_store>>

Cleanup(key) ==
    /\ rag_store' = cleanup_session(rag_store, key)
    /\ last' = RagResponse("cleanup", key, EmptyDict)
    /\ UNCHANGED <<sessions, now, uploads, loop>>

\* upload_resume ingests once under each key it creates
IngestNext ==
    \E key \in Ids :
        \/ key \notin DOMAIN rag_store
              /\ StoreChunks(key, LongDocuments, {chunk_size_default})
        \/ FullText(key)
        \/ Cleanup(key)

IngestSpec == Init /\ [][IngestNext]_vars

(* Queries: short documents cut into chunks of three words, asked for with   *)
(* phrases of their own chunks and with a word of no chunk.                  *)

QueryWords == {"node.js", "Python", "2024"}

ShortDocuments ==
    {join(" ", w) : w \in UNION {[1..n -> QueryWords] : n \in 0..MaxDocWords}}

QueryChunkSizes == {3}

\* the phrases of a chunk list: runs of consecutive words of one chunk
Phrases(chunks) ==
    {join(" ", SubSeq(split(chunks[i]), a, b)) :
        <<i, a, b>> \in {t \in (DOMAIN chunks) \X (1..3) \X (1..3) :
                            t[2] <= t[3] /\ t[3] <= Len(split(chunks[t[1]]))}}

Queries(key) == Phrases(Get(rag_store, key, <<>>)) \cup {<<"js">>}

Query(key) ==
    /\ \E query \in Queries(key), n_results \in {1, n_results_default} :
          last' = RagResponse("query", key,
                     [query |-> query, n_results |-> n_results,
                      text |-> retrieve_context(rag_store, key, query, n_results)])
    /\ UNCHANGED <<sessions, now, uploads, loop, rag_store>>

QueryNext ==
    \E key \in Ids :
        \/ key \notin DOMAIN rag_store
              /\ StoreChunks(key, ShortDocuments, QueryChunkSizes)
        \/ Query(key)
        \/ Cleanup(key)

QuerySpec == Init /\ [][QueryNext]_vars

(* Reports: one uploaded session, interview requests and report requests. *)
(* The answer text may be empty (AnswerRequest.answer: str).                *)

\* a strong answer before a project question, a fair one before a general
\* question, a weak one before a technical question
Strong ==
    Parsed([analysis |-> "good", score |-> 9, next_question |-> "q",
            category |-> "project", topic |-> "t1",
            should_end |-> FALSE, end_reason |-> ""])

Fair ==
    Parsed([analysis |-> "fair", score |-> 6, next_question |-> "q",
            category |-> "general", topic |-> "t1",
            should_end |-> FALSE, end_reason |-> ""])

Weak ==
    Parsed([analysis |-> "weak", score |-> 4, next_question |-> "q",
            category |-> "technical", topic |-> "t1",
            should_end |-> FALSE, end_reason |-> ""])

ReportAnswers ==
    {<<"a", Strong>>, <<"a", Fair>>, <<"a", Weak>>, <<"", Fair>>}

ReportSkipReplies == {NoClient}

FeedbackReplies == {NoClient, Raises, Text("well done"), Text("")}

ReportIds == {"s1", "s2"}

ReportNext ==
    \/ Start("s1")
    \/ AnswerWith("s1", MaxReport, ReportAnswers)
    \/ Skip("s1", MaxReport, ReportSkipReplies)
    \/ End("s1")
    \/ \E s \in ReportIds : Report(s, FeedbackReplies)

ReportSpec == DeepInit /\ [][ReportNext]_vars

(* The session store alone: sessions are created and updated field by      *)
(* field, with keyword arguments that name fields of InterviewSession and   *)
(* names that are no attribute of it.                                       *)

StoreIds == {"s1", "s2"}

UpdateKwargs ==
    {EmptyDict,
     [started |-> TRUE],
     [finished |-> TRUE, end_time |-> 2],
     [current_topic |-> "t2", topic_question_count |-> 1],
     [nickname |-> "x"],
     [weak_streak |-> 1, nickname |-> "x"]}

CreateSession(s) ==
    /\ sessions' = create_session(sessions, s)
    /\ last' = [op |-> "create", sid |-> s, status |-> 200,
                body |-> EmptyDict, reply |-> NoCall]
    /\ UNCHANGED <<now, uploads, loop, rag_store>>

\* body: the keyword arguments of the call
UpdateSession(s) ==
    \E kwargs \in UpdateKwargs :
        /\ sessions' = update_session(sessions, s, kwargs)
        /\ last' = [op |-> "update", sid |-> s, status |-> 200,
                    body |-> kwargs, reply |-> NoCall]
        /\ UNCHANGED <<now, uploads, loop, rag_store>>

StoreNext ==
    \E s \in StoreIds :
        \/ CreateSession(s)
        \/ UpdateSession(s)

StoreSpec == Init /\ [][StoreNext]_vars

(* Two uploaded sessions side by side: interview requests on either, and   *)
(* the retrieval engine's ingest and cleanup under either key.              *)

IsolatedIds == {"s1", "s2"}

IsolatedAnswerReplies ==
    {NoClient,
     Parsed([analysis |-> "weak", score |-> 0, next_question |-> "bye",
             category |-> "general", topic |-> "t1",
             should_end |-> TRUE, end_reason |-> "weak"])}

IsolatedSkipReplies == {NoClient}

IsolatedDocuments == {<<"Python", " ", "2024", " ", "node.js">>}

IsolatedChunkSizes == {2}

IsolationInit ==
    /\ \E text \in ResumeTexts, resume_data \in Profiles :
          LET fields == [resume_text |-> text, resume_summary |-> resume_data]
              st0 == create_session(create_session(EmptyDict, "s1"), "s2")
          IN /\ sessions = update_session(update_session(st0, "s1", fields),
                                          "s2", fields)
             /\ rag_store = store_resume_chunks(
                              store_resume_chunks(EmptyDict, "s1", text, chunk_size_default),
                              "s2", text, chunk_size_default)
             /\ last = [op |-> "upload_resume", sid |-> "s2", status |-> 200,
                        body |-> [session_id |-> "s2", resume_data |-> resume_data],
                        reply |-> NoCall]
    /\ now = 1
    /\ uploads = [s \in Ids |-> 0]
    /\ loop = IdleLoop

IsolationNext ==
    \E s \in IsolatedIds :
        \/ Start(s)
        \/ Answer(s, MaxIsolated, IsolatedAnswerReplies)
        \/ Skip(s, MaxIsolated, IsolatedSkipReplies)
        \/ End(s)
        \/ StoreChunks(s, IsolatedDocuments, IsolatedChunkSizes)
        \/ Cleanup(s)

IsolationSpec == IsolationInit /\ [][IsolationNext]_vars

(* Interviews without a working oracle: every answer and skip finds no      *)
(* client or a failing call, for as long as the rotation has entries and    *)
(* beyond.                                                                  *)

UnavailableReplies == {NoClient, Raises}

FallbackNext ==
    \/ Start("s1")
    \/ Answer("s1", MaxFallback, UnavailableReplies)
    \/ Skip("s1", MaxFallback, UnavailableReplies)
    \/ End("s1")

FallbackSpec == DeepInit /\ [][FallbackNext]_vars

----------------------------------------------------------------------------
(* Concurrent requests.  uvicorn accepts requests while others are being    *)
(* served; each request is a task of the one event loop.  A coroutine keeps *)
(* the loop until it awaits or returns.  submit_answer and skip_question    *)
(* reach the oracle through the synchronous client (_generate), so the call *)
(* blocks the loop instead of yielding it.                                  *)

ConcIds == {"s1", "s2"}

\* the oracle call as if it were awaited
oracle_call_awaited == TRUE

\* whether the handler gives up the loop during the oracle call
oracle_call_yields == FALSE

ConcInit ==
    /\ \E text \in ResumeTexts, resume_data \in Profiles :
          LET fields == [resume_text |-> text, resume_summary |-> resume_data]
              st0 == create_session(create_session(EmptyDict, "s1"), "s2")
              st1 == update_session(update_session(st0, "s1", fields), "s2", fields)
              r1 == start_interview(st1, "s1", NoClient, 1)
              r2 == start_interview(r1.store, "s2", NoClient, 1)
          IN /\ sessions = r2.store
             /\ last = Response("start", "s2", r2, NoClient)
             /\ rag_store = store_resume_chunks(
                              store_resume_chunks(EmptyDict, "s1", text, chunk_size_default),
                              "s2", text, chunk_size_default)
    /\ now = 1
    /\ uploads = [s \in Ids |-> 0]
    /\ loop = IdleLoop

SetTask(t, task) == [loop.tasks EXCEPT ![t] = task]

\* a request is accepted and waits for the loop
Arrive(t) ==
    /\ loop.tasks[t].pc = "idle"
    /\ \E op \in {"answer", "skip"}, s \in ConcIds :
          /\ loop' = [loop EXCEPT !.tasks[t] =
                [IdleTask EXCEPT
                    !.op = op, !.sid = s, !.pc = "queued",
                    !.overlap = \E u \in TaskIds \ {t} :
                                    /\ loop.tasks[u].sid = s
                                    /\ loop.tasks[u].pc \in {"queued", "oracle"}]]
    /\ UNCHANGED <<sessions, now, last, uploads, rag_store>>

\* the record the next record_answer / record_skip on s writes, or -1
Outstanding(s) ==
    IF sessions[s].current_question_index < Len(sessions[s].questions)
    THEN sessions[s].current_question_index ELSE -1

\* the loop starts a waiting request and runs it up to its oracle call, or
\* to its end when it makes none
Enter(t) ==
    /\ loop.running = 0
    /\ loop.tasks[t].pc = "queued"
    /\ LET task == loop.tasks[t]
           s == task.sid
           e == IF task.op = "answer"
                THEN submit_answer_enter(sessions, s, "a", now)
                ELSE skip_question_enter(sessions, s, now)
           acted == IF task.op = "skip" /\ e.status \in {0, 200}
                    THEN Outstanding(s) ELSE -1
       IN /\ sessions' = e.store
          /\ IF e.called
             THEN /\ loop' = [tasks |-> SetTask(t, [task EXCEPT
                                  !.pc = "oracle", !.args = e.args,
                                  !.idx0 = sessions[s].current_question_index,
                                  !.acted = acted]),
                              running |-> IF oracle_call_yields THEN 0 ELSE t]
                  /\ UNCHANGED last
             ELSE /\ loop' = [tasks |-> SetTask(t, [task EXCEPT
                                  !.pc = "done", !.status = e.status,
                                  !.idx0 = sessions[s].current_question_index,
                                  !.acted = acted]),
                              running |-> 0]
                  /\ last' = Response(task.op, s, e, NoCall)
    /\ UNCHANGED <<now, uploads, rag_store>>

\* the oracle call returns and the handler runs to its end
Return(t) ==
    /\ loop.tasks[t].pc = "oracle"
    /\ loop.running = t \/ (oracle_call_yields /\ loop.running = 0)
    /\ LET task == loop.tasks[t]
           s == task.sid
       IN \E reply \in IF task.op = "answer" THEN AnswerReplies ELSE SkipReplies :
            LET r == IF task.op = "answer"
                     THEN submit_answer_resume(sessions, s, "a", task.args, reply, now)
                     ELSE skip_question_resume(sessions, s, task.args, reply, now)
            IN /\ sessions' = r.store
               /\ last' = Response(task.op, s, r, reply)
               /\ loop' = [tasks |-> SetTask(t, [task EXCEPT
                               !.pc = "done", !.status = r.status,
                               !.args = EmptyDict,
                               !.acted = IF task.op = "answer"
                                         THEN Outstanding(s) ELSE task.acted]),
                           running |-> 0]
    /\ UNCHANGED <<now, uploads, rag_store>>

ConcNext == \E t \in TaskIds : Arrive(t) \/ Enter(t) \/ Return(t)

ConcSpec == ConcInit /\ [][ConcNext]_vars

----------------------------------------------------------------------------
(* Properties *)

\* the step is request `op` on session s, answered with 200, and acted on s
Handled(op, s) ==
    /\ last'.op = op
    /\ last'.sid = s
    /\ last'.status = 200
    /\ s \in DOMAIN sessions'
    /\ sessions'[s] # sessions[s]

\* C1: an answer or skip decision cycle never sets the session to finished
\* while fewer than 5 questions have been asked.
C1_FinishOnlyAfterFive ==
    [][\A s \in DOMAIN sessions :
          ((Handled("answer", s) \/ Handled("skip", s))
             /\ ~sessions[s].finished /\ sessions'[s].finished)
          => Len(sessions'[s].questions) >= 5]_vars

\* C2: in every reachable state of every session, finished implies started.
C2_FinishedImpliesStarted ==
    \A s \in DOMAIN sessions : sessions[s].finished => sessions[s].started

\* the fields of a session that a finished interview is to keep
Frozen(session) ==
    <<session.questions, session.current_question_index, session.started,
      session.start_time, session.end_time, session.current_topic,
      session.topic_question_count, session.weak_streak,
      session.conversation_history>>

\* C3: once a session is finished, no later start, answer, skip or end
\* request changes its questions, index, started flag, timestamps, topic,
\* topic count, weak streak or ledger.
C3_FinishedIsTerminal ==
    [][\A s \in DOMAIN sessions :
          (sessions[s].finished
             /\ last'.op \in {"start", "answer", "skip", "end"}
             /\ last'.sid = s /\ s \in DOMAIN sessions')
          => Frozen(sessions'[s]) = Frozen(sessions[s])]_vars

\* C5: for every session, in every reachable state,
\* current_question_index <= length(questions).
C5_IndexWithinQuestions ==
    \A s \in DOMAIN sessions :
        sessions[s].current_question_index <= Len(sessions[s].questions)

\* an interview ended by an answer with every issued question consumed
C5_Witness ==
    \E s \in DOMAIN sessions :
        /\ last.op = "answer" /\ last.sid = s
        /\ sessions[s].finished
        /\ Len(sessions[s].questions) >= 2
        /\ sessions[s].current_question_index = Len(sessions[s].questions)

\* C6: on every answer cycle weak_streak becomes 0 when the cycle's score is
\* above 5 and the previous weak_streak + 1 otherwise; every skip adds exactly
\* 1; the update is committed on the cycle that ends the interview too.
C6_WeakStreakUpdate ==
    [][\A s \in DOMAIN sessions :
          /\ Handled("answer", s) =>
                sessions'[s].weak_streak =
                    IF last'.body.score > 5 THEN 0
                    ELSE sessions[s].weak_streak + 1
          /\ Handled("skip", s) =>
                sessions'[s].weak_streak = sessions[s].weak_streak + 1]_vars

\* five weak answers in a row, the fifth ending the interview
C6_Witness ==
    \E s \in DOMAIN sessions :
        /\ last.op = "answer" /\ last.sid = s /\ last.status = 200
        /\ last.body.is_finished
        /\ sessions[s].finished
        /\ Len(sessions[s].questions) = 5
        /\ \A i \in 1..5 : sessions[s].questions[i].answer # None
                           /\ sessions[s].questions[i].score <= 5
        /\ sessions[s].weak_streak = 5

\* C7: on every decision cycle that chooses a next topic (an answer, or a
\* skip that does not end the interview), topic_question_count becomes 1
\* exactly when the chosen topic differs from the prior current_topic, and
\* the previous count + 1 when the topic stays.
C7_TopicCountUpdate ==
    [][\A s \in DOMAIN sessions :
          (Handled("answer", s)
             \/ (Handled("skip", s) /\ ~sessions'[s].finished))
          => /\ sessions'[s].topic_question_count = 1
                  <=> sessions'[s].current_topic # sessions[s].current_topic
             /\ sessions'[s].current_topic = sessions[s].current_topic
                  => sessions'[s].topic_question_count
                       = sessions[s].topic_question_count + 1]_vars

\* C8: in every reachable state of a started session,
\* topic_question_count >= 1.
C8_TopicCountPositive ==
    \A s \in DOMAIN sessions :
        sessions[s].started => sessions[s].topic_question_count >= 1

\* a started interview whose count was reset by a later cycle
C8_Witness ==
    \E s \in DOMAIN sessions :
        /\ sessions[s].started
        /\ Len(sessions[s].questions) >= 2
        /\ sessions[s].topic_question_count = 1

\* C9: no start, answer or skip request fails because of what the oracle
\* did: the request is answered normally or rejected for the session's
\* state, never with an unhandled error.
C9_OracleNeverSurfaces ==
    last.op \in {"start", "answer", "skip"} => last.status # 500

\* the decision an answer request returns
Decision(body) ==
    [analysis |-> body.analysis, score |-> body.score,
     next_question |-> body.next_question, category |-> body.category,
     is_finished |-> body.is_finished]

\* the decision of the fallback rotation for the session as the answer
\* request finds it
FallbackDecision(session) ==
    LET f == fallback_next(session.resume_summary, Len(session.questions),
                           session.topic_question_count, session.current_topic)
    IN [analysis |-> f["analysis"], score |-> f["score"],
        next_question |-> f["next_question"], category |-> f["category"],
        is_finished |-> f["should_end"]]

Clamp(score) == Min(Max(score, 1), 10)

RotationSkills(resume_data) ==
    LET skills == Get(resume_data, "skills", <<"programming">>)
    IN <<IF skills # <<>> THEN skills[1] ELSE "programming",
         IF Len(skills) > 1 THEN skills[2] ELSE "your domain">>

\* entry i (from 0) of the rotation for a profile
RotationEntry(resume_data, i) ==
    FallbackPool(RotationSkills(resume_data)[1], RotationSkills(resume_data)[2])[i + 1]

\* C11: with the oracle unavailable an answer returns the rotation entry at
\* index min(questions already asked, 7) with score 5 and no termination,
\* appends exactly that one question and leaves the session not finished.
C11_FallbackRotation ==
    [][\A s \in DOMAIN sessions :
          (Handled("answer", s) /\ last'.reply.kind \in {"noclient", "raises"})
          => LET n == Len(sessions[s].questions)
                 e == RotationEntry(sessions[s].resume_summary, Min(n, 7))
             IN /\ last'.body.next_question = e.next_question
                /\ last'.body.category = e.category
                /\ last'.body.score = 5
                /\ last'.body.is_finished = FALSE
                /\ ~sessions'[s].finished
                /\ Len(sessions'[s].questions) = n + 1
                /\ sessions'[s].questions[n + 1].question = e.next_question
                /\ sessions'[s].current_topic = e.topic]_vars

\* an answer given when more questions have been asked than the rotation
\* has entries: the last entry is issued again
C11_Witness ==
    \E s \in DOMAIN sessions :
        /\ last.op = "answer" /\ last.sid = s /\ last.status = 200
        /\ last.reply.kind = "noclient"
        /\ Len(sessions[s].questions) = 10
        /\ sessions[s].questions[10].question = sessions[s].questions[9].question
        /\ sessions[s].questions[10].question
             = "What is the difference between frontend and backend development?"

\* C12: a skip whose weak streak, the skip counted, is at least 3 while at
\* least 5 questions have been asked finishes the session with no oracle
\* call and no new question; any other skip leaves the session in progress.
C12_SkipShortCircuit ==
    [][\A s \in DOMAIN sessions :
          Handled("skip", s)
          => LET n == Len(sessions[s].questions)
                 w == sessions[s].weak_streak + 1
             IN IF w >= 3 /\ n >= 5
                THEN /\ sessions'[s].finished
                     /\ last'.body.is_finished
                     /\ last'.reply = NoCall
                     /\ sessions'[s].questions
                          = [sessions[s].questions EXCEPT ![n].skipped = TRUE]
                     /\ sessions'[s].conversation_history
                          = sessions[s].conversation_history
                ELSE /\ ~sessions'[s].finished
                     /\ ~last'.body.is_finished
                     /\ Len(sessions'[s].questions) = n + 1]_vars

\* a skip that ended the interview at exactly three weak events and five
\* questions
C12_Witness ==
    \E s \in DOMAIN sessions :
        /\ last.op = "skip" /\ last.sid = s /\ last.status = 200
        /\ last.body.is_finished
        /\ last.reply = NoCall
        /\ sessions[s].finished
        /\ sessions[s].weak_streak = 3
        /\ Len(sessions[s].questions) = 5

\* C13: every skip that does not end the interview switches topic: the
\* session's current_topic after the skip differs from the one before it.
C13_SkipSwitchesTopic ==
    [][\A s \in DOMAIN sessions :
          (Handled("skip", s) /\ ~sessions'[s].finished)
          => sessions'[s].current_topic # sessions[s].current_topic]_vars

\* C14: every stored score is an integer in 0..10, and a record that has
\* been answered carries a score in 1..10 (so score 0 occurs only on
\* unanswered or skipped records).
C14_ScoreRange ==
    \A s \in DOMAIN sessions :
        \A i \in 1..Len(sessions[s].questions) :
            LET q == sessions[s].questions[i] IN
            /\ q.score \in 0..10
            /\ q.answer # None => q.score \in 1..10

\* answered records holding the clamped forms of the oracle's scores 15
\* and 0
C14_Witness ==
    \E s \in DOMAIN sessions :
        /\ Len(sessions[s].questions) >= 2
        /\ sessions[s].questions[1].answer # None
        /\ sessions[s].questions[1].score = 10
        /\ sessions[s].questions[1].feedback = "good"
        /\ sessions[s].questions[2].answer # None
        /\ sessions[s].questions[2].score = 1
        /\ sessions[s].questions[2].feedback = "weak"

Categories == {"technical", "project", "behavioral", "skill", "general"}

\* C15: every QuestionRecord of every session has a category that is one of
\* technical, project, behavioral, skill, general.
C15_CategoryInTags ==
    \A s \in DOMAIN sessions :
        \A i \in 1..Len(sessions[s].questions) :
            sessions[s].questions[i].category \in Categories

\* C16: starting a session with the oracle unavailable issues exactly one
\* question, "Tell me about yourself and your background." with category
\* general, sets current_topic introduction, topic_question_count 1,
\* weak_streak 0 and started, and appends the question to the ledger as an
\* interviewer message.
C16_StartWithoutOracle ==
    [][\A s \in DOMAIN sessions :
          (Handled("start", s) /\ last'.reply.kind = "noclient")
          => LET text == "Tell me about yourself and your background." IN
             /\ sessions'[s].questions = <<QuestionRecord(1, text, "general")>>
             /\ sessions'[s].current_question_index = 0
             /\ sessions'[s].current_topic = "introduction"
             /\ sessions'[s].topic_question_count = 1
             /\ sessions'[s].weak_streak = 0
             /\ sessions'[s].started
             /\ sessions'[s].conversation_history
                  = Append(sessions[s].conversation_history,
                           [role |-> "interviewer", content |-> text])
             /\ last'.body.question = text
             /\ last'.body.category = "general"
             /\ last'.body.question_number = 1]_vars

\* a session just started without an oracle
C16_Witness ==
    \E s \in DOMAIN sessions :
        /\ last.op = "start" /\ last.sid = s /\ last.status = 200
        /\ last.reply.kind = "noclient"
        /\ sessions[s].started
        /\ Len(sessions[s].questions) = 1
        /\ sessions[s].questions[1].question
             = "Tell me about yourself and your background."
        /\ sessions[s].current_topic = "introduction"

\* a step in which the request op on session id s is handled (the clock
\* step and the upload steps leave or set other values of last.op)
Request(op, s) == last'.op = op /\ last'.sid = s /\ now' = now

RejectedUnchanged(status) == last'.status = status /\ sessions' = sessions

\* C17: invalid requests are rejected with an error and leave all session
\* state unchanged: start/answer/skip/end on an unknown identifier (404),
\* start on a started session (400), answer or skip on a session that is
\* not started or is finished (400).
C17_InvalidRequestsRejected ==
    [][\A s \in Ids : \A op \in {"start", "answer", "skip", "end"} :
          Request(op, s)
          => /\ s \notin DOMAIN sessions => RejectedUnchanged(404)
             /\ (s \in DOMAIN sessions /\ op = "start" /\ sessions[s].started)
                  => RejectedUnchanged(400)
             /\ (s \in DOMAIN sessions /\ op \in {"answer", "skip"}
                   /\ (~sessions[s].started \/ sessions[s].finished))
                  => RejectedUnchanged(400)]_vars

\* a skip rejected on a session that was started and has finished
C17_Witness ==
    \E s \in DOMAIN sessions :
        /\ last.op = "skip" /\ last.sid = s /\ last.status = 400
        /\ sessions[s].started
        /\ sessions[s].finished
        /\ sessions[s].questions # <<>>

\* records below current_question_index are answered or skipped, never
\* both; records at or above it are untouched
RecordsPartition(session) ==
    \A i \in 1..Len(session.questions) :
        LET q == session.questions[i] IN
        IF i <= session.current_question_index
        THEN (q.answer # None) # q.skipped
        ELSE q.answer = None /\ q.score = 0 /\ ~q.skipped

\* from old to new the sequence grew by appending, the settled records are
\* the same and no record changed its question
RecordsKept(old, new) ==
    /\ Len(new.questions) >= Len(old.questions)
    /\ new.current_question_index >= old.current_question_index
    /\ \A i \in 1..Len(old.questions) :
          /\ i <= old.current_question_index
               => new.questions[i] = old.questions[i]
          /\ new.questions[i].question_number = old.questions[i].question_number
          /\ new.questions[i].question = old.questions[i].question
          /\ new.questions[i].category = old.questions[i].category

\* C18: a QuestionRecord is mutated exactly once and never deleted: across
\* every operation the questions of a session only grow by appending, every
\* record below current_question_index is answered or skipped (never both)
\* and never changes again, and every record at or above it has no answer,
\* score 0 and skipped = FALSE.
C18_RecordsMutatedOnce ==
    [][\A s \in DOMAIN sessions :
          /\ s \in DOMAIN sessions'
          /\ RecordsKept(sessions[s], sessions'[s])
          /\ RecordsPartition(sessions'[s])]_vars

IsPrefix(a, b) == Len(a) <= Len(b) /\ SubSeq(b, 1, Len(a)) = a

\* C19: the conversation ledger of a session is append-only: across every
\* operation the previous ledger is a prefix of the new one.
C19_LedgerAppendOnly ==
    [][\A s \in DOMAIN sessions :
          /\ s \in DOMAIN sessions'
          /\ IsPrefix(sessions[s].conversation_history,
                      sessions'[s].conversation_history)]_vars

\* C20: creating a session yields an identifier that no stored session uses
\* and a session in the NOT_STARTED state, and replaces no stored session.
C20_CreateIsFresh ==
    [][\A s \in Ids :
          (last'.op = "upload_begin" /\ last'.sid = s /\ uploads'[s] > uploads[s])
          => /\ s \notin DOMAIN sessions
             /\ ~sessions'[s].started
             /\ ~sessions'[s].finished
             /\ sessions'[s].questions = <<>>]_vars

\* ceil(k / n)
CeilDiv(k, n) == (k + n - 1) \div n

\* the chunks hold the words in windows of chunk_size: all but the last of
\* exactly chunk_size words, the last of at most chunk_size
Windowed(chunks, chunk_size) ==
    \A i \in DOMAIN chunks :
        /\ Len(split(chunks[i])) <= chunk_size
        /\ i < Len(chunks) => Len(split(chunks[i])) = chunk_size

\* reading the full text back right after the ingest gives the document's
\* word sequence
ReadsBackWords ==
    (last.op = "ingest" /\ last'.op = "full_text" /\ last'.sid = last.sid)
    => split(last'.body.text) = split(last.body.text)

\* C22: ingesting a document of k words (k = 0 included) at chunkSize 100
\* stores exactly ceil(k/100) chunks, each of at most 100 words and all but
\* the last of exactly 100, and getFullText afterwards yields the document's
\* word sequence.
C22_ChunkCount ==
    [][/\ last'.op = "ingest"
          => LET chunks == rag_store'[last'.sid]
                 k == Len(split(last'.body.text))
             IN /\ Len(chunks) = CeilDiv(k, last'.body.chunk_size)
                /\ Windowed(chunks, last'.body.chunk_size)
       /\ ReadsBackWords]_vars

\* C22 as the code has it: a document without words is stored as one chunk,
\* the raw text; every other document of k words as ceil(k/100) chunks.
C22_ChunkCountOrRaw ==
    [][/\ last'.op = "ingest"
          => LET chunks == rag_store'[last'.sid]
                 k == Len(split(last'.body.text))
             IN /\ k = 0 => chunks = <<last'.body.text>>
                /\ k > 0 => Len(chunks) = CeilDiv(k, last'.body.chunk_size)
                /\ Windowed(chunks, last'.body.chunk_size)
       /\ ReadsBackWords]_vars

\* a 250-word document stored as chunks of 100, 100 and 50 words and read
\* back
C22_Witness ==
    /\ last.op = "full_text"
    /\ last.sid \in DOMAIN rag_store
    /\ Len(rag_store[last.sid]) = 3
    /\ Len(split(rag_store[last.sid][1])) = 100
    /\ Len(split(rag_store[last.sid][3])) = 50
    /\ Len(split(last.body.text)) = 250

\* the chunks and their similarities to the query of the last response
QueriedChunks == Get(rag_store, last.sid, <<>>)

QueriedSims ==
    [i \in DOMAIN QueriedChunks |->
        compute_similarity(tokenize(last.body.query), tokenize(QueriedChunks[i]))]

\* idx lists distinct chunks by non-increasing similarity, equal ones in
\* ingestion order, and no listed chunk is lower than an omitted one
\* the order of two similarities: of their real values, or of the doubles
\* computed for them
Less(a, b, computed) == IF computed THEN float_less(a, b) ELSE real_less(a, b)

IsRanking(idx, sims, computed) ==
    /\ \A i, j \in DOMAIN idx :
          i < j => /\ idx[i] # idx[j]
                   /\ ~Less(sims[idx[i]], sims[idx[j]], computed)
                   /\ ~Less(sims[idx[j]], sims[idx[i]], computed) => idx[i] < idx[j]
    /\ \A i \in DOMAIN idx :
          \A o \in (DOMAIN sims) \ {idx[j] : j \in DOMAIN idx} :
              ~Less(sims[idx[i]], sims[o], computed)

\* the text returned is that of min(n_results, chunks stored) chunks in
\* ranking order
QueryRanked(computed) ==
    last.op = "query"
    => LET m == Min(last.body.n_results, Len(QueriedChunks)) IN
       \E idx \in [1..m -> DOMAIN QueriedChunks] :
           /\ IsRanking(idx, QueriedSims, computed)
           /\ last.body.text
                = join_texts("\n", [i \in 1..m |-> QueriedChunks[idx[i]]])

\* C23: query returns the text of min(topN, stored chunks) chunks ordered by
\* non-increasing cosine similarity to the query, chunks of equal similarity
\* in ingestion order, and no returned chunk lower than an omitted one.
C23_RankedByCosine == QueryRanked(FALSE)

\* C23 as the code has it: the same, the similarity being the double the
\* engine computes; chunks of equal cosine whose doubles differ are ordered
\* by the doubles.
C23_RankedByComputed == QueryRanked(TRUE)

\* one of two chunks asked for, and the second, strictly more similar, came
C23_Witness ==
    /\ last.op = "query"
    /\ last.body.n_results = 1
    /\ Len(QueriedChunks) = 2
    /\ real_less(QueriedSims[1], QueriedSims[2])
    /\ QueriedChunks[1] # QueriedChunks[2]
    /\ last.body.text = QueriedChunks[2]

SharesNoToken(chunk, query) ==
    Keys(tokenize(chunk)) \cap Keys(tokenize(query)) = {}

\* chunk i is the query text itself, chunk j has no token of the query
IdenticalAndUnrelated(i, j) ==
    /\ QueriedChunks[i] = last.body.query
    /\ SharesNoToken(QueriedChunks[j], last.body.query)

\* C24: for every query text, a stored chunk identical to the query scores
\* strictly higher than a chunk that shares no token with the query, whose
\* similarity is 0.
C24_IdenticalAboveUnrelated ==
    last.op = "query"
    => \A i, j \in DOMAIN QueriedChunks :
          IdenticalAndUnrelated(i, j)
          => /\ QueriedSims[j].dot = 0
             /\ float_less(QueriedSims[j], QueriedSims[i])

\* C24 as the code has it: the same for every query text that has at least
\* one alphabetic token.
C24_IdenticalAboveUnrelatedAlpha ==
    (last.op = "query" /\ tokenize(last.body.query) # <<>>)
    => \A i, j \in DOMAIN QueriedChunks :
          IdenticalAndUnrelated(i, j)
          => /\ QueriedSims[j].dot = 0
             /\ float_less(QueriedSims[j], QueriedSims[i])

\* a query equal to one chunk, beside a chunk of other words
C24_Witness ==
    /\ last.op = "query"
    /\ tokenize(last.body.query) # <<>>
    /\ \E i, j \in DOMAIN QueriedChunks :
          /\ IdenticalAndUnrelated(i, j)
          /\ tokenize(QueriedChunks[j]) # <<>>
          /\ last.body.n_results = 1
          /\ last.body.text = QueriedChunks[i]

\* the query is a run of consecutive words of chunk i
DrawnFrom(i) == last.body.query \in Phrases(<<QueriedChunks[i]>>)

\* the text returned starts with chunk i
RanksFirst(i) ==
    LET c == QueriedChunks[i]
        text == last.body.text
    IN /\ Len(text) >= Len(c)
       /\ SubSeq(text, 1, Len(c)) = c
       /\ Len(text) > Len(c) => text[Len(c) + 1] = "\n"

\* C25: for every ingested multi-chunk document, a query that is a phrase
\* drawn verbatim from chunk i makes chunk i rank first.
C25_PhraseRanksItsChunkFirst ==
    (last.op = "query" /\ Len(QueriedChunks) >= 2)
    => \A i \in DOMAIN QueriedChunks : DrawnFrom(i) => RanksFirst(i)

\* C25 as the code has it: chunk i ranks first when the phrase has an
\* alphabetic token and no other chunk shares a token with the phrase.
C25_PhraseRanksItsChunkFirstAlone ==
    (last.op = "query" /\ Len(QueriedChunks) >= 2)
    => \A i \in DOMAIN QueriedChunks :
          (/\ DrawnFrom(i)
           /\ tokenize(last.body.query) # <<>>
           /\ \A j \in (DOMAIN QueriedChunks) \ {i} :
                 SharesNoToken(QueriedChunks[j], last.body.query))
          => RanksFirst(i)

\* a phrase of the second chunk, whose words the first chunk does not have,
\* brought the second chunk first
C25_Witness ==
    /\ last.op = "query"
    /\ Len(QueriedChunks) = 2
    /\ DrawnFrom(2)
    /\ last.body.query # QueriedChunks[2]
    /\ tokenize(last.body.query) # <<>>
    /\ tokenize(QueriedChunks[1]) # <<>>
    /\ SharesNoToken(QueriedChunks[1], last.body.query)
    /\ last.body.n_results = n_results_default
    /\ RanksFirst(2)


----------------------------------------------------------------------------
(* Reports *)

\* the last request was a report of session s, answered with 200
Reported(s) == last.op = "report" /\ last.sid = s /\ last.status = 200

\* the positions of the records of s that are not skipped and have an answer
\* (a text that is not empty)
AnsweredAt(s) ==
    {i \in 1..Len(sessions[s].questions) :
        /\ ~sessions[s].questions[i].skipped
        /\ sessions[s].questions[i].answer \notin {None, ""}}

\* the answered positions that qualify as a best answer
QualifyingAt(s) ==
    {i \in AnsweredAt(s) :
        /\ sessions[s].questions[i].category \in {"technical", "skill", "project"}
        /\ sessions[s].questions[i].score >= 6}

\* C26: the best answer of a report is a record of maximum score among the
\* answered records of category technical, skill or project with a score of
\* at least 6, and is null when no record qualifies; a record of category
\* general or behavioral is never the best answer.
C26_BestAnswer ==
    \A s \in DOMAIN sessions :
        Reported(s) =>
            LET qs == sessions[s].questions
                best == last.body.best_answer
            IN /\ QualifyingAt(s) = {} => best = NoDict
               /\ QualifyingAt(s) # {} =>
                    \E i \in QualifyingAt(s) :
                        /\ best = qs[i]
                        /\ \A j \in QualifyingAt(s) : qs[j].score <= qs[i].score
               /\ best # NoDict => best.category \notin {"general", "behavioral"}

\* a report whose highest answered score is on a general question while a
\* lower one qualifies as the best answer
C26_Witness ==
    \E s \in DOMAIN sessions :
        /\ Reported(s)
        /\ last.body.best_answer # NoDict
        /\ \E i \in AnsweredAt(s) :
            /\ sessions[s].questions[i].category = "general"
            /\ sessions[s].questions[i].score > last.body.best_answer.score

\* C27: the average score and the worst answer of a report are computed over
\* exactly the answered records (not skipped, with an answer): the average is
\* their mean to one decimal and the worst answer one of them of minimum
\* score, so that skipped and unanswered records, whose score is 0, count in
\* neither; with nothing answered the average is 0 and the worst answer null.
C27_AverageAndWorst ==
    \A s \in DOMAIN sessions :
        Reported(s) =>
            LET qs == sessions[s].questions
                A == AnsweredAt(s)
                n == Cardinality(A)
                total == Sum([i \in A |-> qs[i].score], A)
                tenths == last.body.average_score
                worst == last.body.worst_answer
            IN /\ last.body.answered = n
               /\ A = {} => tenths = 0 /\ worst = NoDict
               /\ A # {} =>
                    /\ 2 * (tenths * n - 10 * total) <= n
                    /\ 2 * (10 * total - tenths * n) <= n
                    /\ \E i \in A :
                        /\ worst = qs[i]
                        /\ \A j \in A : qs[i].score <= qs[j].score

\* a report over answered, skipped and unanswered records together, the
\* mean of the answered ones falling between two tenths
C27_Witness ==
    \E s \in DOMAIN sessions :
        /\ Reported(s)
        /\ last.body.skipped >= 1
        /\ last.body.answered >= 2
        /\ last.body.total_questions > last.body.answered + last.body.skipped
        /\ last.body.worst_answer # NoDict
        /\ last.body.average_score % 10 # 0

\* C28: a report over a session with no answered record carries the fixed
\* "no questions answered" feedback, whatever the oracle does; otherwise,
\* with the oracle unavailable, the feedback is the band of the average over
\* the answered records, the average the report shows.
C28_FeedbackFollowsReport ==
    \A s \in DOMAIN sessions :
        Reported(s) =>
            LET qs == sessions[s].questions
                A == AnsweredAt(s)
                total == Sum([i \in A |-> qs[i].score], A)
            IN /\ A = {} => last.body.overall_feedback = NoAnswersFeedback
               /\ A # {} /\ last.reply = NoClient =>
                    last.body.overall_feedback = band_feedback(total, Cardinality(A))

----------------------------------------------------------------------------
(* The outstanding question *)

\* C29: a session that is started and not finished has exactly one issued
\* question outstanding, Len(questions) = current_question_index + 1, so
\* that an answer request never finds the index at or past the end of the
\* questions.
C29_OneOutstanding ==
    \A s \in DOMAIN sessions :
        /\ sessions[s].started /\ ~sessions[s].finished =>
              Len(sessions[s].questions) = sessions[s].current_question_index + 1
        /\ last.op = "answer" /\ last.sid = s /\ last.status = 200 =>
              last.body.analysis # "Interview complete!"

\* an interview in progress after an answer and a skip, its third question
\* outstanding
C29_Witness ==
    \E s \in DOMAIN sessions :
        /\ sessions[s].started /\ ~sessions[s].finished
        /\ sessions[s].current_question_index = 2
        /\ Len(sessions[s].questions) = 3
        /\ \E i, j \in 1..2 :
              /\ sessions[s].questions[i].skipped
              /\ sessions[s].questions[j].answer # None

\* C30: a finished session has end_time >= start_time, so the duration its
\* report shows is never negative, and is 0 when the session was never
\* started, in whatever order start and end were requested.
C30_DurationNonNegative ==
    \A s \in DOMAIN sessions :
        sessions[s].finished =>
            /\ sessions[s].end_time >= sessions[s].start_time
            /\ get_session_report(sessions, s).duration_seconds >= 0
            /\ ~sessions[s].started =>
                  get_session_report(sessions, s).duration_seconds = 0

----------------------------------------------------------------------------
(* The session store *)

----------------------------------------------------------------------------
(* The ledger and the questions *)

\* the contents of the ledger entries of one role, in order
MessagesOf(session, role) ==
    LET entries == SelectSeq(session.conversation_history,
                             LAMBDA e : e.role = role)
    IN [i \in 1..Len(entries) |-> entries[i].content]

\* the texts of the questions, in order
QuestionTexts(session) ==
    [i \in 1..Len(session.questions) |-> session.questions[i].question]

\* C31: the interviewer messages of a session's ledger are exactly the texts
\* of its questions in order (a closing line returned on termination is
\* neither), and the candidate messages grow only in an answer request on
\* the session, by that one message, never in a skip.
C31_LedgerMirrorsQuestions ==
    [][\A s \in DOMAIN sessions' :
          /\ MessagesOf(sessions'[s], "interviewer") = QuestionTexts(sessions'[s])
          /\ s \in DOMAIN sessions =>
               LET old == MessagesOf(sessions[s], "candidate")
                   new == MessagesOf(sessions'[s], "candidate")
               IN /\ Len(new) > Len(old) =>
                        /\ last'.op = "answer" /\ last'.sid = s
                        /\ Len(new) = Len(old) + 1
                        /\ IsPrefix(old, new)
                  /\ last'.op = "skip" => new = old]_vars

\* an interview of answers and skips that a skip has ended with a closing
\* line
C31_Witness ==
    \E s \in DOMAIN sessions :
        /\ last.op = "skip" /\ last.sid = s /\ last.status = 200
        /\ last.body.is_finished
        /\ sessions[s].finished
        /\ last.body.next_question \notin
              {sessions[s].conversation_history[i].content :
                  i \in DOMAIN sessions[s].conversation_history}
        /\ Len(MessagesOf(sessions[s], "candidate")) >= 1
        /\ Len(MessagesOf(sessions[s], "interviewer")) >= 5

----------------------------------------------------------------------------
(* Isolation by key *)

\* store f is the same under every key but a, where it may differ
SameButAt(f, g, a) ==
    /\ (DOMAIN f) \ {a} = (DOMAIN g) \ {a}
    /\ \A x \in (DOMAIN f) \ {a} : f[x] = g[x]

\* C32: a start, answer, skip or end on session a leaves every other session
\* and the retrieval store unchanged; an ingest under key a replaces only the
\* chunks of a and a cleanup removes only those, and neither changes a
\* session.
C32_IsolatedByKey ==
    [][\A a \in IsolatedIds :
          /\ last'.op \in {"start", "answer", "skip", "end"} /\ last'.sid = a
               => /\ SameButAt(sessions, sessions', a)
                  /\ a \in DOMAIN sessions'
                  /\ rag_store' = rag_store
          /\ last'.op = "ingest" /\ last'.sid = a
               => /\ SameButAt(rag_store, rag_store', a)
                  /\ a \in DOMAIN rag_store'
                  /\ sessions' = sessions
          /\ last'.op = "cleanup" /\ last'.sid = a
               => /\ SameButAt(rag_store, rag_store', a)
                  /\ a \notin DOMAIN rag_store'
                  /\ sessions' = sessions]_vars

\* an answer on s1 just handled, beside the ended interview of s2 and chunks
\* of s2 that an ingest has replaced
C32_Witness ==
    /\ last.op = "answer" /\ last.sid = "s1" /\ last.status = 200
    /\ Len(sessions["s1"].questions) = 2
    /\ sessions["s2"].started /\ sessions["s2"].finished
    /\ DOMAIN rag_store = {"s1", "s2"}
    /\ Len(rag_store["s2"]) = 2
    /\ Len(rag_store["s1"]) = 1

====
